---- MODULE Spec2Model ----
(***************************************************************************)
(* The SSE streaming clients of src/src/utils/fetch-sse.ts:                *)
(*   FetchSSEClient  (POST + manual parsing of the byte stream) and        *)
(*   ResilientSSE    (wrapper around the platform's EventSource).          *)
(*                                                                         *)
(* Text is a sequence of one-character strings; "LF" and "CR" name the two *)
(* line terminators, "E9" the character U+00E9 and "FFFD" the replacement  *)
(* character.  A byte is named like the ASCII character it encodes; "C3"   *)
(* and "A9" are the two bytes of the UTF-8 encoding of U+00E9.             *)
(* An optional value (a field that may be undefined) is <<>> or <<v>>.     *)
(***************************************************************************)
EXTENDS Integers, Sequences, FiniteSets, TLC

None == <<>>
Some(v) == <<v>>

(***************************************************************************)
(* Bounds of the model.                                                    *)
(***************************************************************************)
\* longest stream of the parser specification, in segments
MaxSegs == 4
\* most reconnect timeouts pending at once whose id reconnectTimer does not hold
MaxStrayTimeouts == 2
\* most EventSource objects alive at once that this.es does not refer to
MaxOrphans == 1
\* most data lines accumulated in currentEvent in the lifecycle specification
MaxPendingLines == 1
\* maxReconnectAttempts in the backoff specification: the retries of one run
BackoffRetries == 7
\* longest stream of the frame specification, in lines
MaxLines == 3
\* longest stream of the chat parser specification, in segments
MaxChatSegs == 3

(***************************************************************************)
(* TextDecoder.decode(value, {stream: true}) for UTF-8: an incomplete      *)
(* multi-byte character at the end of a chunk is kept for the next chunk;  *)
(* a lead byte not followed by a continuation byte, and a continuation     *)
(* byte on its own, decode to U+FFFD.                                      *)
(***************************************************************************)
IsLeadByte(b) == b = "C3"
IsContinuationByte(b) == b = "A9"

RECURSIVE Utf8Decode(_, _)
Utf8Decode(pending, bytes) ==
    IF bytes = <<>> THEN [text |-> <<>>, pending |-> pending]
    ELSE LET b == Head(bytes) IN
         IF pending # <<>>
         THEN IF IsContinuationByte(b)
              THEN LET r == Utf8Decode(<<>>, Tail(bytes))
                   IN  [text |-> <<"E9">> \o r.text, pending |-> r.pending]
              ELSE LET r == Utf8Decode(<<>>, bytes)
                   IN  [text |-> <<"FFFD">> \o r.text, pending |-> r.pending]
         ELSE IF IsLeadByte(b) THEN Utf8Decode(<<b>>, Tail(bytes))
         ELSE LET r == Utf8Decode(<<>>, Tail(bytes))
              IN  [text |-> <<IF IsContinuationByte(b) THEN "FFFD" ELSE b>> \o r.text,
                   pending |-> r.pending]

\* decoder.decode(value, { stream: true })
Decode(pending, bytes) == Utf8Decode(pending, bytes)

(***************************************************************************)
(* String primitives of the parser.                                        *)
(***************************************************************************)
\* s.split('\n'), with cur the piece being collected
RECURSIVE SplitLines(_, _)
SplitLines(s, cur) ==
    IF s = <<>> THEN <<cur>>
    ELSE IF Head(s) = "LF" THEN <<cur>> \o SplitLines(Tail(s), <<>>)
    ELSE SplitLines(Tail(s), Append(cur, Head(s)))

IsWhitespace(c) == c \in {" ", "CR", "TAB"}

RECURSIVE TrimStart(_)
TrimStart(s) ==
    IF s # <<>> /\ IsWhitespace(Head(s)) THEN TrimStart(Tail(s)) ELSE s

RECURSIVE TrimEnd(_)
TrimEnd(s) ==
    IF s # <<>> /\ IsWhitespace(s[Len(s)])
    THEN TrimEnd(SubSeq(s, 1, Len(s) - 1)) ELSE s

\* String.prototype.trim
Trim(s) == TrimEnd(TrimStart(s))

\* s.startsWith(p)
StartsWith(s, p) == Len(s) >= Len(p) /\ SubSeq(s, 1, Len(p)) = p

\* s.indexOf(':'), 0-based, -1 when absent
IndexOfColon(s) ==
    IF \E i \in 1..Len(s) : s[i] = ":"
    THEN (CHOOSE i \in 1..Len(s) : s[i] = ":" /\ \A j \in 1..(i - 1) : s[j] # ":") - 1
    ELSE -1

DigitValue(c) ==
    CASE c = "0" -> 0 [] c = "1" -> 1 [] c = "2" -> 2 [] c = "3" -> 3 [] c = "4" -> 4
      [] c = "5" -> 5 [] c = "6" -> 6 [] c = "7" -> 7 [] c = "8" -> 8 [] c = "9" -> 9
IsDigit(c) == c \in {"0", "1", "2", "3", "4", "5", "6", "7", "8", "9"}

\* a number is [nan |-> FALSE, n |-> its value]
NaN == [nan |-> TRUE, n |-> 0]
Number(n) == [nan |-> FALSE, n |-> n]

RECURSIVE DigitsValue(_, _)
DigitsValue(s, acc) ==
    IF s = <<>> \/ ~IsDigit(Head(s)) THEN acc
    ELSE DigitsValue(Tail(s), acc * 10 + DigitValue(Head(s)))

\* parseInt(value, 10) on an unsigned value: the leading digits, NaN if none
ParseInt(value) ==
    LET v == TrimStart(value)
    IN  IF v = <<>> \/ ~IsDigit(Head(v)) THEN NaN ELSE Number(DigitsValue(v, 0))

FieldData == <<"d", "a", "t", "a">>
FieldEvent == <<"e", "v", "e", "n", "t">>
FieldId == <<"i", "d">>
FieldRetry == <<"r", "e", "t", "r", "y">>

EmptyEvent == [data |-> None, event |-> None, id |-> None, retry |-> None]

(***************************************************************************)
(* The line parser of FetchSSEClient.  A parser state is                   *)
(*   [currentEvent, out, touched]                                          *)
(* currentEvent the accumulator of the client, out the callbacks invoked   *)
(* (in order), touched whether lastHeartbeat was set to Date.now().        *)
(***************************************************************************)
OnMessage(m) == [cb |-> "onMessage", arg |-> m]
\* a message callback in the place of the heartbeat callback
OnEmptyMessage == OnMessage(EmptyEvent)
OnHeartbeat == [cb |-> "onHeartbeat", arg |-> EmptyEvent]

\* parseSSEEvent(line)
parseSSEEvent(ev, line) ==
    LET colonIndex == IndexOfColon(line) IN
    IF colonIndex = -1 THEN ev
    ELSE LET field == SubSeq(line, 1, colonIndex)
             value == Trim(SubSeq(line, colonIndex + 2, Len(line)))
         IN  CASE field = FieldData ->
                    [ev EXCEPT !.data =
                        Some((IF ev.data = None THEN <<>> ELSE ev.data[1]) \o value \o <<"LF">>)]
               [] field = FieldEvent -> [ev EXCEPT !.event = Some(value)]
               [] field = FieldId -> [ev EXCEPT !.id = Some(value)]
               [] field = FieldRetry -> [ev EXCEPT !.retry = Some(ParseInt(value))]
               [] OTHER -> ev

\* data, with no replace(/\n$/, '')
KeepTrailingLF(s) == s

\* data.replace(/\n$/, '')
StripTrailingLF(s) ==
    IF s # <<>> /\ s[Len(s)] = "LF" THEN SubSeq(s, 1, Len(s) - 1) ELSE s

\* dispatchEvent()
dispatchEvent(st) ==
    [st EXCEPT
        !.out = IF st.currentEvent.data # None
                THEN Append(@, OnMessage([st.currentEvent EXCEPT
                                             !.data = Some(StripTrailingLF(@[1]))]))
                ELSE @,
        !.currentEvent = EmptyEvent]

\* processSSELine(line) without its first statement: lastHeartbeat is left alone
processSSELineUntouched(st0, line) ==
    IF StartsWith(line, <<":">>) THEN [st0 EXCEPT !.out = Append(@, OnHeartbeat)]
    ELSE IF Trim(line) = <<>> THEN dispatchEvent(st0)
    ELSE IF \/ StartsWith(line, FieldData \o <<":">>)
            \/ StartsWith(line, FieldEvent \o <<":">>)
            \/ StartsWith(line, FieldId \o <<":">>)
            \/ StartsWith(line, FieldRetry \o <<":">>)
    THEN [st0 EXCEPT !.currentEvent = parseSSEEvent(@, line)]
    ELSE st0

\* processSSELine(line)
processSSELine(st0, line) ==
    LET st == [st0 EXCEPT !.touched = TRUE] IN
    IF StartsWith(line, <<":">>) THEN [st EXCEPT !.out = Append(@, OnHeartbeat)]
    ELSE IF Trim(line) = <<>> THEN dispatchEvent(st)
    ELSE IF \/ StartsWith(line, FieldData \o <<":">>)
            \/ StartsWith(line, FieldEvent \o <<":">>)
            \/ StartsWith(line, FieldId \o <<":">>)
            \/ StartsWith(line, FieldRetry \o <<":">>)
    THEN [st EXCEPT !.currentEvent = parseSSEEvent(@, line)]
    ELSE st

\* for (const line of lines) this.processSSELine(line), for lines[i..n]
RECURSIVE ProcessLines(_, _, _, _)
ProcessLines(st, lines, i, n) ==
    IF i > n THEN st ELSE ProcessLines(processSSELine(st, lines[i]), lines, i + 1, n)

\* buffer = lines.pop() || '' with every complete line dropped as well: the
\* text after the last line terminator is not kept for the next chunk
KeepNothing(lines) == <<>>

\* buffer = lines.pop() || ''
KeepIncompleteLine(lines) == lines[Len(lines)]

(***************************************************************************)
(* One iteration of the read loop of processStream for a chunk `value`:    *)
(* rd = [buffer, pending] are the locals of processStream (buffer and the  *)
(* bytes the TextDecoder holds back), ev the client's currentEvent.        *)
(***************************************************************************)
ReadChunk(rd, ev, value) ==
    LET dec == Decode(rd.pending, value)
        lines == SplitLines(rd.buffer \o dec.text, <<>>)
        st == ProcessLines([currentEvent |-> ev, out |-> <<>>, touched |-> FALSE],
                           lines, 1, Len(lines) - 1)
    IN  [buffer |-> KeepIncompleteLine(lines), pending |-> dec.pending,
         currentEvent |-> st.currentEvent, out |-> st.out, touched |-> st.touched]

NewReader == [buffer |-> <<>>, pending |-> <<>>]

\* the messages among the callbacks out
RECURSIVE MessagesOf(_)
MessagesOf(out) ==
    IF out = <<>> THEN <<>>
    ELSE (IF Head(out).cb = "onMessage" THEN <<Head(out).arg>> ELSE <<>>)
         \o MessagesOf(Tail(out))

(***************************************************************************)
(* Program constants.                                                      *)
(***************************************************************************)
BACKOFF_SCHEDULE == <<1000, 2000, 4000, 8000, 16000, 30000>>
\* Math.random() * 500 lies in [0, 500)
JitterBound == 500
\* period of the heartbeat check (setInterval)
CheckIntervalMs == 5000
FetchDefaultMaxReconnectAttempts == 5
ResilientDefaultMaxReconnectAttempts == 10
DefaultHeartbeatTimeoutMs == 15000
DefaultMaxBackoffMs == 30000

\* one step of the clock
TickMs == CheckIntervalMs \div 5

\* option values given to the constructor; 0 is also what an absent option
\* evaluates to in `options.x || default`
MaxReconnectOptions == {0, 1, 5}
HeartbeatOptions == {1000, 7000}
MaxBackoffOptions == {0}
\* values of Math.floor(Math.random() * 500)
Jitters == {0, JitterBound - 1}

Min(a, b) == IF a < b THEN a ELSE b

\* options.x || dflt
OrDefault(x, dflt) == IF x = 0 THEN dflt ELSE x

VARIABLES
    \* ---- processStream and the parser (FetchSSEClient)
    input,        \* SpecStream: the bytes of the whole response body
    rest,         \* SpecStream: the bytes the network has not delivered yet
    reader,       \* locals of processStream: [buffer, pending]
    currentEvent, \* FetchSSEClient.currentEvent
    delivered,    \* SpecStream: the messages passed to onMessage, in order
    splitInLine,  \* SpecStream: some chunk ended inside a line (history)
    heartbeats,   \* SpecStream: the number of onHeartbeat calls so far (history)
    \* ---- the client object
    client,       \* "FetchSSEClient" | "ResilientSSE": the class instantiated
                  \* ("processSSEStream" in SpecChat, which has no client)
    options,      \* this.options: [maxReconnectAttempts, heartbeatTimeoutMs, maxBackoffMs]
    phase,        \* the connect() call in progress: "idle" | "fetch" (awaiting
                  \* fetch) | "reading" (awaiting reader.read) | "done" (returned
                  \* after the stream ended)
    abortController,   \* FetchSSEClient: this.abortController is not null
    isConnected,       \* FetchSSEClient.isConnected
    reconnectTimer,    \* FetchSSEClient.reconnectTimer: "null" | "pending" (id of
                       \* a pending timeout) | "fired" (id of a timeout that ran)
    reconnectAttempts, \* this.reconnectAttempts
    heartbeatTimer,    \* this.heartbeatTimer holds a running interval
    hbDue,             \* ms until the interval callback runs next
    silence,           \* Date.now() - this.lastHeartbeat
    timeouts,          \* pending reconnect timeouts that no field refers to
    delay,             \* the delay of the reconnect timeout set last, while one is pending
    es,                \* ResilientSSE.es: "undefined" | "CONNECTING" | "OPEN"
    orphans,           \* ResilientSSE: EventSource objects not closed and no
                       \* longer referred to by this.es: [CONNECTING, OPEN] counts
    isDestroyed,       \* ResilientSSE.isDestroyed
    lastEventId,       \* ResilientSSE.lastEventId: None (undefined) or Some(text)
    \* ---- history
    out,            \* the callbacks invoked by the last step, in order
    status,         \* the status passed last to onConnectionStatus
    ev,             \* the event handled by the last step
    closedFrom,     \* status when close() was called, "no" if connect() was called since
    closedInFlight, \* close() was called with a fetch or a read in flight
    errRun,         \* number of failed opens so far, if nothing else happened
                    \* since the first connect(); -1 otherwise
    reconnectings,  \* 'reconnecting' reports since the last 'connected'
    resumeHint,     \* the event id sent with the request that opened the transport
                    \* last: None or Some(text)
    idReceived,     \* the id of the last message received that carried one
    resetFrom       \* reconnectAttempts before the last step, if that step
                    \* reported 'connected'; -1 otherwise

streamVars == <<input, rest, delivered, splitInLine, heartbeats>>
parserVars == <<reader, currentEvent>>
clientVars == <<client, options, phase, abortController, isConnected, reconnectTimer,
                reconnectAttempts, heartbeatTimer, hbDue, silence, timeouts, delay,
                es, orphans, isDestroyed, lastEventId>>
historyVars == <<out, status, ev, closedFrom, closedInFlight, errRun, reconnectings,
                 resumeHint, idReceived, resetFrom>>
vars == <<streamVars, parserVars, clientVars, historyVars>>

StatusLabels == {"connecting", "connected", "reconnecting", "disconnected"}
ErrorLabels == {"onError:TransportError", "onError:ProtocolError",
                "onError:Heartbeat timeout", "onError:SSE error event",
                "onError:Max reconnection attempts reached", "onError:CallbackError"}

RECURSIVE Count(_, _)
Count(seq, S) ==
    IF seq = <<>> THEN 0
    ELSE (IF Head(seq) \in S THEN 1 ELSE 0) + Count(Tail(seq), S)

Has(seq, S) == \E i \in 1..Len(seq) : seq[i] \in S

RECURSIVE LastStatus(_, _)
LastStatus(seq, old) ==
    IF seq = <<>> THEN old
    ELSE LastStatus(Tail(seq), IF Head(seq) \in StatusLabels THEN Head(seq) ELSE old)

\* 'reconnecting' reports since the last 'connected', counted up to 2
RECURSIVE Reconnectings(_, _)
Reconnectings(seq, n) ==
    IF seq = <<>> THEN n
    ELSE Reconnectings(Tail(seq),
            IF Head(seq) = "connected" THEN 0
            ELSE IF Head(seq) = "reconnecting" THEN Min(n + 1, 2) ELSE n)

\* the names of the callbacks of the parser
RECURSIVE Labels(_)
Labels(o) == IF o = <<>> THEN <<>> ELSE <<Head(o).cb>> \o Labels(Tail(o))

(***************************************************************************)
(* The fields of the client as one record, so that the methods are         *)
(* functions from records to records and call each other as in the source. *)
(***************************************************************************)
Self ==
    [phase |-> phase, abortController |-> abortController, isConnected |-> isConnected,
     reconnectTimer |-> reconnectTimer, reconnectAttempts |-> reconnectAttempts,
     heartbeatTimer |-> heartbeatTimer, hbDue |-> hbDue, silence |-> silence,
     timeouts |-> timeouts, delay |-> delay, es |-> es, orphans |-> orphans,
     isDestroyed |-> isDestroyed, lastEventId |-> lastEventId,
     resumeHint |-> resumeHint, idReceived |-> idReceived, out |-> <<>>]

Call(s, cb) == [s EXCEPT !.out = Append(@, cb)]

\* the state after a step that leaves the client as s
Becomes(s) ==
    /\ s.timeouts <= MaxStrayTimeouts
    /\ phase' = s.phase
    /\ abortController' = s.abortController
    /\ isConnected' = s.isConnected
    /\ reconnectTimer' = s.reconnectTimer
    /\ reconnectAttempts' = s.reconnectAttempts
    /\ heartbeatTimer' = s.heartbeatTimer
    /\ hbDue' = s.hbDue
    /\ silence' = s.silence
    /\ timeouts' = s.timeouts
    /\ delay' = IF s.reconnectTimer = "pending" \/ s.timeouts > 0 THEN s.delay ELSE 0
    /\ es' = s.es
    /\ orphans' = s.orphans
    /\ isDestroyed' = s.isDestroyed
    /\ lastEventId' = s.lastEventId
    /\ resumeHint' = s.resumeHint
    /\ idReceived' = s.idReceived
    /\ resetFrom' = IF Has(s.out, {"connected"}) THEN reconnectAttempts ELSE -1
    /\ out' = s.out
    /\ status' = LastStatus(s.out, status)
    /\ reconnectings' = Reconnectings(s.out, reconnectings)
    /\ UNCHANGED <<client, options, streamVars>>

\* baseDelay + jitter, not capped at maxBackoffMs
UncappedDelay(attempts, jitter) ==
    BACKOFF_SCHEDULE[Min(attempts, Len(BACKOFF_SCHEDULE) - 1) + 1] + jitter

\* Math.min(baseDelay + jitter, this.options.maxBackoffMs)
BackoffDelay(attempts, jitter) ==
    LET backoffIndex == Min(attempts, Len(BACKOFF_SCHEDULE) - 1)
        baseDelay == BACKOFF_SCHEDULE[backoffIndex + 1]
    IN  Min(baseDelay + jitter, options.maxBackoffMs)

\* timeSinceLastHeartbeat >= this.options.heartbeatTimeoutMs
HeartbeatExpiredAtTimeout(timeSinceLastHeartbeat) ==
    timeSinceLastHeartbeat >= options.heartbeatTimeoutMs

\* timeSinceLastHeartbeat > this.options.heartbeatTimeoutMs
HeartbeatExpired(timeSinceLastHeartbeat) ==
    timeSinceLastHeartbeat > options.heartbeatTimeoutMs

\* the silence beyond which the clock need not count
SilenceCap == options.heartbeatTimeoutMs + CheckIntervalMs + TickMs

(***************************************************************************)
(* FetchSSEClient                                                          *)
(***************************************************************************)
\* stopHeartbeatMonitor(); lastHeartbeat is read by the interval callback
\* only, so the clock stops counting with the interval
FstopHeartbeatMonitor(s) ==
    [s EXCEPT !.heartbeatTimer = FALSE, !.hbDue = 0, !.silence = 0]

\* startHeartbeatMonitor()
FstartHeartbeatMonitor(s) ==
    [FstopHeartbeatMonitor(s) EXCEPT !.heartbeatTimer = TRUE, !.hbDue = CheckIntervalMs,
                                     !.silence = s.silence]

\* cleanup(): abort() rejects the pending fetch or read of the connect() call
\* in progress with an AbortError, on which that call returns at once
Fcleanup(s) ==
    [FstopHeartbeatMonitor(s) EXCEPT
        !.abortController = FALSE,
        !.phase = IF s.phase \in {"fetch", "reading"} THEN "idle" ELSE s.phase,
        !.reconnectTimer = "null",
        !.isConnected = FALSE]

\* scheduleReconnect()
FscheduleReconnect(s, jitter) ==
    [Call(s, "reconnecting") EXCEPT
        !.delay = BackoffDelay(s.reconnectAttempts, jitter),
        !.timeouts = IF s.reconnectTimer = "pending" THEN @ + 1 ELSE @,
        !.reconnectTimer = "pending"]

\* handleConnectionError(error)
FhandleConnectionError(s, error, jitter) ==
    LET s1 == Call(FstopHeartbeatMonitor([s EXCEPT !.isConnected = FALSE]), error)
    IN  IF s1.reconnectAttempts < options.maxReconnectAttempts
        THEN FscheduleReconnect(s1, jitter)
        ELSE Call(s1, "disconnected")

\* connect(), up to the await of fetch(): the request carries the headers
\* Accept and Cache-Control, options.headers and options.body
Fconnect(s) ==
    [Call(Fcleanup(s), "connecting") EXCEPT !.abortController = TRUE, !.phase = "fetch",
                                            !.resumeHint = None]

\* close()
Fclose(s) == Call(Fcleanup(s), "disconnected")

IsFetch == client = "FetchSSEClient"

\* the owner calls connect()
FConnect ==
    /\ IsFetch
    /\ Becomes(Fconnect(Self))
    /\ ev' = "connect"
    /\ closedFrom' = "no"
    /\ closedInFlight' = FALSE
    /\ errRun' = IF status = "none" THEN 0 ELSE -1
    /\ UNCHANGED parserVars

\* fetch() resolves with an ok response that has a body (lines 85-91)
FFetchOk ==
    /\ IsFetch
    /\ phase = "fetch"
    /\ Becomes(FstartHeartbeatMonitor(
                 Call([Self EXCEPT !.isConnected = TRUE, !.reconnectAttempts = 0,
                                   !.silence = 0, !.phase = "reading"],
                      "connected")))
    /\ reader' = NewReader
    /\ ev' = "open"
    /\ errRun' = -1
    /\ UNCHANGED <<currentEvent, closedFrom, closedInFlight>>

\* fetch() rejects, or resolves with a response that is not ok (TransportError)
\* or has no body (ProtocolError): the catch of connect()
FFetchFail(error, jitter) ==
    /\ IsFetch
    /\ phase = "fetch"
    /\ Becomes(FhandleConnectionError([Self EXCEPT !.phase = "idle"], error, jitter))
    /\ ev' = "openFailed"
    /\ errRun' = IF errRun >= 0 THEN Min(errRun + 1, FetchDefaultMaxReconnectAttempts + 2) ELSE -1
    /\ UNCHANGED <<parserVars, closedFrom, closedInFlight>>

\* chunks the network delivers in the lifecycle specification: a data line, a
\* blank line, a comment line
LifecycleChunks ==
    { FieldData \o <<":", "x", "LF">>, <<"LF">>, <<":", "LF">> }

PendingLines(e) == IF e.data = None THEN 0 ELSE Count(e.data[1], {"LF"})

\* the id of the last message among the callbacks o that carries one, old if none
RECURSIVE LastId(_, _)
LastId(o, old) ==
    IF o = <<>> THEN old
    ELSE LastId(Tail(o), IF Head(o).cb = "onMessage" /\ Head(o).arg.id # None
                         THEN Head(o).arg.id ELSE old)

\* reader.read() resolves with a chunk: one iteration of the loop of processStream
FRead(value) ==
    /\ IsFetch
    /\ phase = "reading"
    /\ LET r == ReadChunk(reader, currentEvent, value) IN
        /\ PendingLines(r.currentEvent) <= MaxPendingLines
        /\ reader' = [buffer |-> r.buffer, pending |-> r.pending]
        /\ currentEvent' = r.currentEvent
        /\ Becomes([Self EXCEPT !.out = Labels(r.out),
                                !.idReceived = LastId(r.out, @),
                                !.silence = IF r.touched /\ heartbeatTimer THEN 0 ELSE @])
    /\ ev' = "chunk"
    /\ UNCHANGED <<closedFrom, closedInFlight, errRun>>

\* reader.read() resolves with done: processStream and connect() return
FReadDone ==
    /\ IsFetch
    /\ phase = "reading"
    /\ Becomes([Self EXCEPT !.phase = "done"])
    /\ reader' = NewReader
    /\ ev' = "streamEnd"
    /\ UNCHANGED <<currentEvent, closedFrom, closedInFlight, errRun>>

\* reader.read() rejects with a network error: the catch of connect()
FReadError(jitter) ==
    /\ IsFetch
    /\ phase = "reading"
    /\ Becomes(FhandleConnectionError([Self EXCEPT !.phase = "idle"],
                                      "onError:TransportError", jitter))
    /\ reader' = NewReader
    /\ ev' = "transportError"
    /\ UNCHANGED <<currentEvent, closedFrom, closedInFlight, errRun>>

\* the interval callback of startHeartbeatMonitor
FHeartbeatCheck(jitter) ==
    /\ IsFetch
    /\ heartbeatTimer
    /\ hbDue = 0
    /\ IF HeartbeatExpired(silence)
       THEN /\ Becomes(FhandleConnectionError(Self, "onError:Heartbeat timeout", jitter))
            /\ ev' = "heartbeatTimeout"
       ELSE /\ Becomes([Self EXCEPT !.hbDue = CheckIntervalMs])
            /\ ev' = "heartbeatCheck"
    /\ UNCHANGED <<parserVars, closedFrom, closedInFlight, errRun>>

\* the callback of the timeout of scheduleReconnect whose id reconnectTimer holds
FReconnectTimer ==
    /\ IsFetch
    /\ reconnectTimer = "pending"
    /\ Becomes(Fconnect([Self EXCEPT !.reconnectTimer = "fired",
                                     !.reconnectAttempts = @ + 1]))
    /\ ev' = "reconnectTimer"
    /\ UNCHANGED <<parserVars, closedFrom, closedInFlight, errRun>>

\* the callback of a timeout of scheduleReconnect whose id was overwritten
FStrayReconnectTimer ==
    /\ IsFetch
    /\ timeouts > 0
    /\ Becomes(Fconnect([Self EXCEPT !.timeouts = @ - 1, !.reconnectAttempts = @ + 1]))
    /\ ev' = "reconnectTimer"
    /\ UNCHANGED <<parserVars, closedFrom, closedInFlight, errRun>>

\* the owner calls close()
FClose ==
    /\ IsFetch
    /\ Becomes(Fclose(Self))
    /\ ev' = "close"
    /\ closedFrom' = status
    /\ closedInFlight' = (phase \in {"fetch", "reading"})
    /\ errRun' = -1
    /\ UNCHANGED parserVars

(***************************************************************************)
(* ResilientSSE.  An EventSource object is the one this.es refers to or an *)
(* orphan: an object that was never closed and that this.es has stopped    *)
(* referring to.  The listeners of every object are closures over the      *)
(* client, so an orphan's events run the same handlers.                    *)
(***************************************************************************)
\* stopHeartbeatMonitoring()
RstopHeartbeatMonitoring(s) ==
    [s EXCEPT !.heartbeatTimer = FALSE, !.hbDue = 0, !.silence = 0]

\* startHeartbeatMonitoring()
RstartHeartbeatMonitoring(s) ==
    [RstopHeartbeatMonitoring(s) EXCEPT !.heartbeatTimer = TRUE, !.hbDue = CheckIntervalMs,
                                        !.silence = s.silence]

\* cleanup(triggerReconnect)
Rcleanup(s) == [RstopHeartbeatMonitoring(s) EXCEPT !.es = "undefined"]

\* close(final)
Rclose(s, final) ==
    IF final THEN Call([Rcleanup(s) EXCEPT !.isDestroyed = TRUE], "disconnected")
    ELSE Rcleanup(s)

\* handleError(error)
RhandleError(s, error) == Rclose(Call(s, error), FALSE)

\* handleConnectionError()
RhandleConnectionError(s, jitter) ==
    IF s.isDestroyed \/ s.es = "undefined" THEN s
    ELSE LET s1 == Rcleanup(s) IN
         IF s1.reconnectAttempts >= options.maxReconnectAttempts
         THEN Call(Call(s1, "disconnected"), "onError:Max reconnection attempts reached")
         ELSE [Call(s1, "reconnecting") EXCEPT
                  !.delay = BackoffDelay(s1.reconnectAttempts, jitter),
                  !.reconnectAttempts = @ + 1,
                  !.timeouts = @ + 1]

\* connect(): this.es = new EventSource(url); the object this.es referred to
\* is not closed
Rconnect(s) ==
    IF s.isDestroyed THEN s
    ELSE [Call(s, "connecting") EXCEPT
             !.orphans = IF s.es = "undefined" THEN @
                         ELSE [@ EXCEPT ![s.es] = @ + 1],
             !.resumeHint = s.lastEventId,
             !.es = "CONNECTING"]

\* the handler of onopen without `this.reconnectAttempts = 0`
RonopenKeepingAttempts(s) ==
    RstartHeartbeatMonitoring([Call(s, "connected") EXCEPT !.silence = 0])

\* the handler of onopen
Ronopen(s) ==
    RstartHeartbeatMonitoring(
        [Call(s, "connected") EXCEPT !.reconnectAttempts = 0, !.silence = 0])

\* the payloads the server sends as unnamed events
MessageData == {"payload", "[DONE]", "heartbeat"}

\* the values of event.lastEventId: the empty string, an id
EventIds == {<<>>, <<"1">>}

\* handleMessage(event), with data = event.data and id = event.lastEventId
RhandleMessage(s, data, id) ==
    LET s1 == [s EXCEPT !.silence = 0,
                        !.lastEventId = IF id # <<>> THEN Some(id) ELSE @,
                        !.idReceived = IF id # <<>> THEN Some(id) ELSE @] IN
    IF data \in {"[DONE]", "stream_complete"} THEN Rclose(s1, FALSE)
    ELSE IF data \in {"heartbeat", "connected"} THEN s1
    ELSE Call(s1, "onMessage")

\* the listener of 'ping'
Rping(s) == Call([s EXCEPT !.silence = 0], "onHeartbeat")

IsResilient == client = "ResilientSSE"

\* the readyState of the EventSource src ("es" or "orphan") can be state
SourceIs(src, state) ==
    IF src = "es" THEN es = state ELSE orphans[state] > 0

\* the client after the EventSource src went from readyState `from` to `to`
\* (a closed orphan is gone)
Moved(s, src, from, to) ==
    IF from = to THEN s
    ELSE IF src = "es" THEN [s EXCEPT !.es = to]
    ELSE [s EXCEPT !.orphans =
             [st \in {"CONNECTING", "OPEN"} |->
                 IF st = from THEN @[st] - 1 ELSE IF st = to THEN @[st] + 1 ELSE @[st]]]

\* the owner calls connect()
RConnect ==
    /\ IsResilient
    /\ LET s == Rconnect(Self) IN
        /\ s.orphans["CONNECTING"] + s.orphans["OPEN"] <= MaxOrphans
        /\ Becomes(s)
    /\ ev' = "connect"
    /\ closedFrom' = IF isDestroyed THEN closedFrom ELSE "no"
    /\ closedInFlight' = IF isDestroyed THEN closedInFlight ELSE FALSE
    /\ errRun' = IF status = "none" THEN 0 ELSE -1
    /\ UNCHANGED parserVars

\* an EventSource opens: the handler of onopen
ROpen(src) ==
    /\ IsResilient
    /\ SourceIs(src, "CONNECTING")
    /\ Becomes(Ronopen(Moved(Self, src, "CONNECTING", "OPEN")))
    /\ ev' = "open"
    /\ errRun' = -1
    /\ UNCHANGED <<parserVars, closedFrom, closedInFlight>>

\* an open EventSource delivers an unnamed event: onmessage
RMessage(src, data, id) ==
    /\ IsResilient
    /\ SourceIs(src, "OPEN")
    /\ Becomes(RhandleMessage(Self, data, id))
    /\ ev' = "chunk"
    /\ UNCHANGED <<parserVars, closedFrom, closedInFlight, errRun>>

\* an open EventSource delivers an event named 'ping'
RPing(src) ==
    /\ IsResilient
    /\ SourceIs(src, "OPEN")
    /\ Becomes(Rping(Self))
    /\ ev' = "chunk"
    /\ UNCHANGED <<parserVars, closedFrom, closedInFlight, errRun>>

\* an open EventSource delivers an event named 'done' or 'cancelled'
RDone(src) ==
    /\ IsResilient
    /\ SourceIs(src, "OPEN")
    /\ Becomes(Rclose(Self, FALSE))
    /\ ev' = "streamEnd"
    /\ UNCHANGED <<parserVars, closedFrom, closedInFlight, errRun>>

\* An EventSource fires an event of type 'error': the platform on a failed
\* connection, after it set readyState to CONNECTING (it will retry) or to
\* CLOSED (it gave up), or the server with a frame `event: error`.  The
\* listener added with addEventListener('error') runs first, the handler
\* assigned to onerror second.
RError(src, from, to, jitter) ==
    /\ IsResilient
    /\ to = "OPEN" => from = "OPEN"
    /\ SourceIs(src, from)
    /\ Becomes(RhandleConnectionError(
                 RhandleError(Moved(Self, src, from, to), "onError:SSE error event"),
                 jitter))
    /\ ev' = IF from = "CONNECTING" THEN "openFailed"
             ELSE IF to = "OPEN" THEN "serverError" ELSE "transportError"
    /\ errRun' = IF from = "CONNECTING" /\ errRun >= 0
                 THEN Min(errRun + 1, FetchDefaultMaxReconnectAttempts + 2) ELSE -1
    /\ UNCHANGED <<parserVars, closedFrom, closedInFlight>>

\* the interval callback of startHeartbeatMonitoring
RHeartbeatCheck(jitter) ==
    /\ IsResilient
    /\ heartbeatTimer
    /\ hbDue = 0
    /\ IF HeartbeatExpired(silence)
       THEN /\ LET s == RhandleConnectionError(Self, jitter) IN
                 Becomes(IF s.heartbeatTimer THEN [s EXCEPT !.hbDue = CheckIntervalMs] ELSE s)
            /\ ev' = "heartbeatTimeout"
       ELSE /\ Becomes([Self EXCEPT !.hbDue = CheckIntervalMs])
            /\ ev' = "heartbeatCheck"
    /\ UNCHANGED <<parserVars, closedFrom, closedInFlight, errRun>>

\* the callback of the timeout of handleConnectionError
RReconnectTimer ==
    /\ IsResilient
    /\ timeouts > 0
    /\ LET s0 == [Self EXCEPT !.timeouts = @ - 1]
           s == IF ~s0.isDestroyed THEN Rconnect(s0) ELSE s0
       IN  /\ s.orphans["CONNECTING"] + s.orphans["OPEN"] <= MaxOrphans
           /\ Becomes(s)
    /\ ev' = "reconnectTimer"
    /\ UNCHANGED <<parserVars, closedFrom, closedInFlight, errRun>>

\* the owner calls close()
RClose ==
    /\ IsResilient
    /\ Becomes(Rclose(Self, TRUE))
    /\ ev' = "close"
    /\ closedFrom' = status
    /\ closedInFlight' = (es # "undefined")
    /\ errRun' = -1
    /\ UNCHANGED parserVars

\* the owner calls reconnect() of useResilientSSE: close() and then connect()
\* of the client the hook holds
RHookReconnect ==
    /\ IsResilient
    /\ Becomes(Rconnect(Rclose(Self, TRUE)))
    /\ ev' = "reconnect"
    /\ closedFrom' = status
    /\ closedInFlight' = (es # "undefined")
    /\ errRun' = -1
    /\ UNCHANGED parserVars

(***************************************************************************)
(* Time: the clock advances by TickMs unless an interval callback is due.  *)
(* It is followed only while an interval runs, the one reader of the clock.*)
(***************************************************************************)
Tick ==
    /\ heartbeatTimer
    /\ hbDue > 0
    /\ hbDue' = hbDue - TickMs
    /\ silence' = Min(silence + TickMs, SilenceCap)
    /\ out' = <<>>
    /\ ev' = "tick"
    /\ resetFrom' = -1
    /\ UNCHANGED <<streamVars, parserVars, client, options, phase, abortController,
                   isConnected, reconnectTimer, reconnectAttempts, heartbeatTimer,
                   timeouts, delay, es, orphans, isDestroyed, lastEventId,
                   status, closedFrom, closedInFlight, errRun, reconnectings,
                   resumeHint, idReceived>>

(***************************************************************************)
(* Specification Spec: the life of one client of either class.             *)
(***************************************************************************)
\* the fields of a new client, and an empty history
NewClient ==
    /\ abortController = FALSE
    /\ isConnected = FALSE
    /\ reconnectTimer = "null"
    /\ reconnectAttempts = 0
    /\ heartbeatTimer = FALSE
    /\ hbDue = 0
    /\ silence = 0
    /\ timeouts = 0
    /\ delay = 0
    /\ es = "undefined"
    /\ orphans = [st \in {"CONNECTING", "OPEN"} |-> 0]
    /\ isDestroyed = FALSE
    /\ lastEventId = None
    /\ out = <<>>
    /\ status = "none"
    /\ ev = "new"
    /\ closedFrom = "no"
    /\ closedInFlight = FALSE
    /\ errRun = -1
    /\ reconnectings = 0
    /\ resumeHint = None
    /\ idReceived = None
    /\ resetFrom = -1

\* this.options as the constructor sets it from the options m, h, b given
Options(class, m, h, b) ==
    [maxReconnectAttempts |->
         OrDefault(m, IF class = "FetchSSEClient"
                      THEN FetchDefaultMaxReconnectAttempts
                      ELSE ResilientDefaultMaxReconnectAttempts),
     heartbeatTimeoutMs |-> OrDefault(h, DefaultHeartbeatTimeoutMs),
     maxBackoffMs |-> OrDefault(b, DefaultMaxBackoffMs)]

\* the constructor
Init ==
    /\ client \in {"FetchSSEClient", "ResilientSSE"}
    /\ \E m \in MaxReconnectOptions, h \in HeartbeatOptions, b \in MaxBackoffOptions :
         options = Options(client, m, h, b)
    /\ phase = "idle"
    /\ NewClient
    /\ reader = NewReader
    /\ currentEvent = EmptyEvent
    /\ input = <<>>
    /\ rest = <<>>
    /\ delivered = <<>>
    /\ splitInLine = FALSE
    /\ heartbeats = 0

Sources == {"es", "orphan"}

Next ==
    \/ FConnect
    \/ FFetchOk
    \/ \E e \in {"onError:TransportError", "onError:ProtocolError"}, j \in Jitters :
          FFetchFail(e, j)
    \/ \E value \in LifecycleChunks : FRead(value)
    \/ FReadDone
    \/ \E j \in Jitters : FReadError(j)
    \/ \E j \in Jitters : FHeartbeatCheck(j)
    \/ FReconnectTimer
    \/ FStrayReconnectTimer
    \/ FClose
    \/ RConnect
    \/ \E src \in Sources : ROpen(src)
    \/ \E src \in Sources, data \in MessageData : RMessage(src, data, <<>>)
    \/ \E src \in Sources : RPing(src)
    \/ \E src \in Sources : RDone(src)
    \/ \E src \in Sources, from \in {"CONNECTING", "OPEN"},
          to \in {"CONNECTING", "OPEN", "CLOSED"}, j \in Jitters :
          RError(src, from, to, j)
    \/ \E j \in Jitters : RHeartbeatCheck(j)
    \/ RReconnectTimer
    \/ RClose
    \/ RHookReconnect
    \/ Tick

Spec == Init /\ [][Next]_vars

(***************************************************************************)
(* Specification SpecStream: processStream of a connected FetchSSEClient   *)
(* on one response body, which the network delivers in chunks of any size. *)
(***************************************************************************)
Segments ==
    { FieldData \o <<":">>, FieldEvent \o <<":">>, <<"x">>, <<"C3", "A9">>,
      <<":">>, <<"LF">>, <<"CR">> }

RECURSIVE Streams(_)
Streams(n) ==
    IF n = 0 THEN {<<>>}
    ELSE LET S == Streams(n - 1) IN S \cup {s \o g : s \in S, g \in Segments}

\* the longest segment, in bytes
MaxSegmentLen == Len(FieldEvent) + 1

InitStream ==
    /\ client = "FetchSSEClient"
    /\ options = Options(client, 0, 0, 0)
    /\ phase = "reading"
    /\ NewClient
    /\ input \in Streams(MaxSegs)
    /\ rest = input
    /\ reader = NewReader
    /\ currentEvent = EmptyEvent
    /\ delivered = <<>>
    /\ splitInLine = FALSE
    /\ heartbeats = 0

\* const { done, value } = await reader.read() with done = false, value the
\* next n bytes of the body
StreamRead(n) ==
    /\ phase = "reading"
    /\ n \in 1..Len(rest)
    /\ LET r == ReadChunk(reader, currentEvent, SubSeq(rest, 1, n)) IN
        /\ reader' = [buffer |-> r.buffer, pending |-> r.pending]
        /\ currentEvent' = r.currentEvent
        /\ delivered' = delivered \o MessagesOf(r.out)
        /\ heartbeats' = heartbeats + Count(Labels(r.out), {"onHeartbeat"})
        /\ splitInLine' = (splitInLine \/ (n < Len(rest) /\ (r.buffer # <<>> \/ r.pending # <<>>)))
    /\ rest' = SubSeq(rest, n + 1, Len(rest))
    /\ UNCHANGED <<input, clientVars, historyVars>>

\* reader.read() resolves with done = true: the loop ends, what is left in
\* buffer goes with the locals
StreamDone ==
    /\ phase = "reading"
    /\ rest = <<>>
    /\ phase' = "done"
    /\ reader' = NewReader
    /\ UNCHANGED <<input, rest, currentEvent, delivered, splitInLine, heartbeats,
                   historyVars, client, options, abortController, isConnected,
                   reconnectTimer, reconnectAttempts, heartbeatTimer, hbDue, silence,
                   timeouts, delay, es, orphans, isDestroyed, lastEventId>>

NextStream ==
    \/ \E n \in 1..(MaxSegs * MaxSegmentLen) : StreamRead(n)
    \/ StreamDone

SpecStream == InitStream /\ [][NextStream]_vars

\* the messages of the whole stream fed as one chunk
WholeStreamMessages(bytes) ==
    MessagesOf(ReadChunk(NewReader, EmptyEvent, bytes).out)

\* C1: chunk-size invariance of processStream: however the stream was split
\* into chunks, once it has ended the messages passed to onMessage are the
\* messages of the whole stream fed as a single chunk
ChunkSizeInvariance ==
    phase = "done" => delivered = WholeStreamMessages(input)

\* a stream that was split inside a line has ended and delivered a message
ChunkSizeInvarianceWitness ==
    phase = "done" /\ splitInLine /\ Len(delivered) >= 1
(***************************************************************************)
(* Properties of the life of a client (specification Spec).                *)
(***************************************************************************)
\* a reconnect timeout is pending
PendingReconnect == reconnectTimer = "pending" \/ timeouts > 0

\* the transports that are open or opening and can call back into the client
Transports ==
    (IF phase \in {"fetch", "reading"} THEN 1 ELSE 0)
    + (IF es \in {"CONNECTING", "OPEN"} THEN 1 ELSE 0)
    + orphans["CONNECTING"] + orphans["OPEN"]

\* the client has a transport of its own to give up on a heartbeat timeout
HasTransport == IsFetch \/ (es # "undefined" /\ ~isDestroyed)

\* C2: cancellation silence: after close() was called while the status was
\* 'reconnecting', no step reports 'connecting' and no step calls onError
CancellationSilence ==
    closedFrom = "reconnecting" => ~Has(out, {"connecting"} \cup ErrorLabels)

\* nothing of the client is left to run: no timer, no transport
Quiescent == ~PendingReconnect /\ ~heartbeatTimer /\ Transports = 0

\* C3: exhaustion scenario: with maxReconnectAttempts = 5 and every open
\* failing (errRun counts the failed opens; nothing else has happened), once
\* 5 opens have failed the status reported last is 'disconnected' and
\* nothing is left that could report 'connecting'; and whenever the client
\* has come to rest in this scenario, the status reported last is
\* 'disconnected'
ExhaustionScenario ==
    options.maxReconnectAttempts = 5
        => /\ errRun >= 5 => (status = "disconnected" /\ Quiescent)
           /\ (errRun >= 1 /\ Quiescent) => status = "disconnected"

\* C4: a transport error in status 'connected' with attempts left reports
\* 'reconnecting' and leaves a reconnect timeout pending
TransportErrorsRetried ==
    [][(ev' = "transportError" /\ status = "connected"
            /\ reconnectAttempts < options.maxReconnectAttempts)
        => (status' = "reconnecting" /\ PendingReconnect')]_vars

\* C5: after the stream of a FetchSSEClient ended normally ('disconnected'
\* was reported then), and until connect() is called, no reconnect is
\* pending, no heartbeat check runs and onError is not called
NormalEndIsCleanClose ==
    (IsFetch /\ phase = "done")
        => (status = "disconnected" /\ ~PendingReconnect /\ ~heartbeatTimer
            /\ ~Has(out, ErrorLabels))

CloseIsTerminal ==
    closedFrom # "no" => ~Has(out, {"onMessage"})

\* C8: after close() was called on a FetchSSEClient in status 'connecting' or
\* 'connected' with a fetch or a read in flight, onError is not called, no
\* reconnect is scheduled and no status other than 'disconnected' is reported
AbortIsSilent ==
    (IsFetch /\ closedInFlight /\ closedFrom \in {"connecting", "connected"})
        => (status = "disconnected" /\ ~Has(out, ErrorLabels \cup {"reconnecting"}))

\* C9: at most one transport per client is open or opening, and after a
\* connect() no timer of the connection before it is pending
SingleTransport ==
    /\ Transports <= 1
    /\ (ev = "connect" /\ ~isDestroyed) => (~PendingReconnect /\ ~heartbeatTimer)

\* C10: an error handled with reconnectAttempts >= maxReconnectAttempts
\* reports 'disconnected', calls onError once, with the error 'Max
\* reconnection attempts reached', and leaves no reconnect timeout pending
ExhaustionError ==
    [][(ev' \in {"openFailed", "transportError", "heartbeatTimeout"}
            /\ reconnectAttempts >= options.maxReconnectAttempts)
        => (/\ status' = "disconnected"
            /\ Count(out', ErrorLabels) = 1
            /\ Has(out', {"onError:Max reconnection attempts reached"})
            /\ ~PendingReconnect')]_vars

(***************************************************************************)
(* The connection state of a client, and the statuses it reports.          *)
(***************************************************************************)
\* ResilientSSE: the getter connectionStatus
connectionStatus ==
    IF isDestroyed THEN "disconnected"
    ELSE IF es = "undefined" THEN "disconnected"
    ELSE CASE es = "CONNECTING" ->
                 IF reconnectAttempts > 0 THEN "reconnecting" ELSE "connecting"
           [] es = "OPEN" -> "connected"
           [] OTHER -> "disconnected"

\* FetchSSEClient: what the client is doing: awaiting fetch(), reading the
\* stream of a connection it holds to be up, waiting for a reconnect
\* timeout, or nothing
FetchState ==
    IF phase = "fetch" THEN "connecting"
    ELSE IF phase = "reading" /\ isConnected THEN "connected"
    ELSE IF reconnectTimer = "pending" \/ timeouts > 0 THEN "reconnecting"
    ELSE "disconnected"

\* C11: onConnectionStatus is fired on every state transition: once a status
\* was reported, the status reported last is the connection state of the
\* client (so after the stream ended, or the connection was closed
\* non-finally or on a processing error, it is 'disconnected')
StatusTracksState ==
    status # "none" => status = (IF IsFetch THEN FetchState ELSE connectionStatus)

\* the transition old -> new is one of the state machine: the first status is
\* 'connecting'; 'disconnected' can follow any status; nothing but
\* 'disconnected' follows 'disconnected'; an error while connecting is
\* followed like an error while connected
Transition(old, new) ==
    \/ new = "disconnected"
    \/ old = "none" /\ new = "connecting"
    \/ <<old, new>> \in { <<"connecting", "connected">>, <<"connected", "reconnecting">>,
                          <<"reconnecting", "connecting">>,
                          <<"connecting", "reconnecting">> }

\* the statuses among the callbacks seq follow the state machine from status old
RECURSIVE FollowsMachine(_, _)
FollowsMachine(old, seq) ==
    IF seq = <<>> THEN TRUE
    ELSE IF Head(seq) \in StatusLabels
         THEN Transition(old, Head(seq)) /\ FollowsMachine(Head(seq), Tail(seq))
         ELSE FollowsMachine(old, Tail(seq))

\* C12: the statuses reported follow the state machine: in every step other
\* than a call of connect() by the owner, which starts the machine again,
\* each status reported is a transition of the machine from the status
\* reported before it, and after 'disconnected' only 'disconnected' is reported
StatusSequence ==
    [][ev' # "connect" => FollowsMachine(status, out')]_vars

(***************************************************************************)
(* Specification SpecBackoff: a client that is allowed BackoffRetries      *)
(* retries, under several caps maxBackoffMs, on a server that refuses      *)
(* connections or goes silent.                                             *)
(***************************************************************************)
\* the option maxBackoffMs: absent, below the first base delay, between two
\* base delays
BackoffCaps == {0, BACKOFF_SCHEDULE[1] \div 2, BACKOFF_SCHEDULE[5] + BACKOFF_SCHEDULE[3]}

InitBackoff ==
    /\ client \in {"FetchSSEClient", "ResilientSSE"}
    /\ \E b \in BackoffCaps, h \in HeartbeatOptions :
         options = Options(client, BackoffRetries, h, b)
    /\ phase = "idle"
    /\ NewClient
    /\ reader = NewReader
    /\ currentEvent = EmptyEvent
    /\ input = <<>>
    /\ rest = <<>>
    /\ delivered = <<>>
    /\ splitInLine = FALSE
    /\ heartbeats = 0

NextBackoff ==
    \/ FConnect
    \/ FFetchOk
    \/ \E j \in Jitters : FFetchFail("onError:TransportError", j)
    \/ \E j \in Jitters : FHeartbeatCheck(j)
    \/ FReconnectTimer
    \/ RConnect
    \/ ROpen("es")
    \/ \E j \in Jitters : RHeartbeatCheck(j)
    \/ RReconnectTimer
    \/ Tick

SpecBackoff == InitBackoff /\ [][NextBackoff]_vars

\* C13: backoff bounds: a step that schedules a retry with the attempt
\* counter at k sets a delay d with
\*   min(S[min(k,5)], maxBackoffMs) <= d <= min(S[min(k,5)] + 500, maxBackoffMs);
\* with the default maxBackoffMs, d is in [1000, 1500) for k = 0 and is
\* exactly 30000 for every k >= 5
BackoffBounds ==
    [][Has(out', {"reconnecting"}) =>
         LET k == reconnectAttempts
             base == BACKOFF_SCHEDULE[Min(k, 5) + 1]
         IN  /\ Min(base, options.maxBackoffMs) <= delay'
             /\ delay' <= Min(base + 500, options.maxBackoffMs)
             /\ (options.maxBackoffMs = DefaultMaxBackoffMs /\ k = 0)
                    => (1000 <= delay' /\ delay' < 1500)
             /\ (options.maxBackoffMs = DefaultMaxBackoffMs /\ k >= 5)
                    => delay' = 30000]_vars

\* a retry was scheduled with the attempt counter at 5 or more, under the
\* default cap, and its timeout is pending
BackoffBoundsWitness ==
    /\ IsFetch
    /\ status = "reconnecting"
    /\ reconnectTimer = "pending"
    /\ reconnectAttempts >= 5
    /\ options.maxBackoffMs = DefaultMaxBackoffMs
    /\ delay = 30000

\* C19: attempt counter reset: a step that reports 'connected' leaves the
\* reconnect attempt counter at 0, and no other step (failed open, scheduled
\* retry, heartbeat timeout, close, ...) decreases it
AttemptCounterReset ==
    [][IF Has(out', {"connected"}) THEN reconnectAttempts' = 0
       ELSE reconnectAttempts' >= reconnectAttempts]_vars

\* a connection was opened after retries: the step reported 'connected' and
\* took the counter from a positive value to 0
AttemptCounterResetWitness ==
    /\ ev = "open"
    /\ status = "connected"
    /\ resetFrom > 0
    /\ reconnectAttempts = 0

\* C20: pending-event reset on teardown: whenever FetchSSEClient starts a
\* connection (connect() has reported 'connecting' and awaits fetch), the
\* frame accumulator is empty, so nothing of a frame that an earlier
\* connection left unterminated can reach a later message
PendingEventReset ==
    (IsFetch /\ phase = "fetch") => currentEvent = EmptyEvent

(***************************************************************************)
(* Specification SpecFrame: processStream of a connected FetchSSEClient on *)
(* a response body made of whole lines (field lines with values, comment   *)
(* lines, blank lines), which the network delivers in chunks of any size.  *)
(***************************************************************************)
DataLine(value) == FieldData \o <<":", " ">> \o value
Hel == <<"h", "e", "l">>
Lo == <<"l", "o">>
Hello == Hel \o Lo
PingComment == <<":", " ", "p", "i", "n", "g">>
EventLine == FieldEvent \o <<":", " ", "e">>

FrameLines == { DataLine(Hel), DataLine(Lo), DataLine(Hello), <<>>, PingComment, EventLine }

\* the bodies of up to n lines, each line ended by a line feed
RECURSIVE FrameStreams(_)
FrameStreams(n) ==
    IF n = 0 THEN {<<>>}
    ELSE LET S == FrameStreams(n - 1)
         IN  S \cup {s \o l \o <<"LF">> : s \in S, l \in FrameLines}

\* the longest line with its line feed, in bytes
MaxLineLen == Len(DataLine(Hello)) + 1

InitFrame ==
    /\ client = "FetchSSEClient"
    /\ options = Options(client, 0, 0, 0)
    /\ phase = "reading"
    /\ NewClient
    /\ input \in FrameStreams(MaxLines)
    /\ rest = input
    /\ reader = NewReader
    /\ currentEvent = EmptyEvent
    /\ delivered = <<>>
    /\ splitInLine = FALSE
    /\ heartbeats = 0

NextFrame ==
    \/ \E n \in 1..(MaxLines * MaxLineLen) : StreamRead(n)
    \/ StreamDone

SpecFrame == InitFrame /\ [][NextFrame]_vars

\* the complete lines of a body
CompleteLines(bytes) ==
    LET pieces == SplitLines(Utf8Decode(<<>>, bytes).text, <<>>)
    IN  SubSeq(pieces, 1, Len(pieces) - 1)

\* values joined with "\n"
RECURSIVE Join(_)
Join(values) ==
    IF values = <<>> THEN <<>>
    ELSE IF Len(values) = 1 THEN values[1]
    ELSE values[1] \o <<"LF">> \o Join(Tail(values))

\* for each frame of lines[i..] that has a data line, the values of its data
\* lines joined with "\n"; values are the values of the data lines of the
\* frame being read
RECURSIVE JoinedData(_, _, _)
JoinedData(lines, i, values) ==
    IF i > Len(lines) THEN <<>>
    ELSE LET line == lines[i] IN
         IF StartsWith(line, FieldData \o <<":">>)
         THEN JoinedData(lines, i + 1,
                         Append(values, Trim(SubSeq(line, Len(FieldData) + 2, Len(line)))))
         ELSE IF Trim(line) = <<>>
         THEN (IF values = <<>> THEN <<>> ELSE <<Join(values)>>)
              \o JoinedData(lines, i + 1, <<>>)
         ELSE JoinedData(lines, i + 1, values)

\* the data of the messages ms
DataOf(ms) == [i \in 1..Len(ms) |-> ms[i].data[1]]

HelLoFrame == DataLine(Hel) \o <<"LF">> \o DataLine(Lo) \o <<"LF", "LF">>

\* C14: multi-line data join: once the stream has ended, the data of the
\* messages dispatched are, frame by frame, the values of the data lines of
\* the frame joined with "\n", with no trailing newline; the body
\* "data: hel\ndata: lo\n\n" gives exactly one message, with data "hel\nlo"
MultiLineDataJoin ==
    phase = "done" =>
        /\ DataOf(delivered) = JoinedData(CompleteLines(input), 1, <<>>)
        /\ input = HelLoFrame => DataOf(delivered) = << Hel \o <<"LF">> \o Lo >>

\* the body "data: hel\ndata: lo\n\n", split inside a line, has ended and
\* one message with data "hel\nlo" was dispatched
MultiLineDataJoinWitness ==
    /\ phase = "done"
    /\ input = HelLoFrame
    /\ splitInLine
    /\ Len(delivered) = 1
    /\ delivered[1].data = Some(Hel \o <<"LF">> \o Lo)

HelloFrame == DataLine(Hello) \o <<"LF", "LF">>
MessageEvent == <<"m", "e", "s", "s", "a", "g", "e">>

\* C15: split-mid-field scenario: once the body "data: hello\n\n" has ended,
\* however it was split into chunks, exactly one message was dispatched,
\* with data "hello" and event "message"; and in general every message
\* dispatched carries an event, "message" unless its frame named another
SplitMidField ==
    phase = "done" =>
        /\ input = HelloFrame =>
               delivered = << [EmptyEvent EXCEPT !.data = Some(Hello),
                                                 !.event = Some(MessageEvent)] >>
        /\ \A i \in 1..Len(delivered) :
               delivered[i].event \in {Some(MessageEvent), Some(<<"e">>)}

IsComment(line) == StartsWith(line, <<":">>)

\* the body made of the lines[i..] that are not comment lines
RECURSIVE WithoutComments(_, _)
WithoutComments(lines, i) ==
    IF i > Len(lines) THEN <<>>
    ELSE (IF IsComment(lines[i]) THEN <<>> ELSE lines[i] \o <<"LF">>)
         \o WithoutComments(lines, i + 1)

\* the number of comment lines among lines
NumComments(lines) == Cardinality({i \in 1..Len(lines) : IsComment(lines[i])})

PingFrame == PingComment \o <<"LF", "LF">>
CommentInFrame == DataLine(Hel) \o <<"LF">> \o PingComment \o <<"LF", "LF">>

\* C16: comment transparency: whatever the accumulator holds, a comment line
\* leaves it as it is, passes no message, sets the liveness timestamp and
\* calls onHeartbeat once; once a stream has ended, onHeartbeat was called
\* once per comment line and the messages dispatched are those of the
\* stream without its comment lines; the body ": ping\n\n" gives no message
CommentTransparency ==
    /\ \A line \in {PingComment, <<":">>, <<":">> \o DataLine(Lo)} :
          LET r == processSSELine([currentEvent |-> currentEvent, out |-> <<>>,
                                   touched |-> FALSE], line)
          IN  r.currentEvent = currentEvent /\ Labels(r.out) = <<"onHeartbeat">> /\ r.touched
    /\ phase = "done" =>
          /\ heartbeats = NumComments(CompleteLines(input))
          /\ delivered = WholeStreamMessages(WithoutComments(CompleteLines(input), 1))
          /\ input = PingFrame => delivered = <<>>

\* the body "data: hel\n: ping\n\n", split inside a line, has ended:
\* onHeartbeat was called once and the message of the frame was dispatched
CommentTransparencyWitness ==
    /\ phase = "done"
    /\ input = CommentInFrame
    /\ splitInLine
    /\ heartbeats = 1
    /\ Len(delivered) = 1
    /\ delivered[1].data = Some(Hel)

(***************************************************************************)
(* Specification SpecResume: a client on a server that sends events with   *)
(* ids, with connections that break or go silent.                          *)
(***************************************************************************)
\* a frame with an id, as one chunk
ResumeChunks == { FieldId \o <<":", "1", "LF">> \o FieldData \o <<":", "x", "LF", "LF">> }

InitResume ==
    /\ client \in {"FetchSSEClient", "ResilientSSE"}
    /\ \E m \in MaxReconnectOptions, h \in HeartbeatOptions :
         options = Options(client, m, h, 0)
    /\ phase = "idle"
    /\ NewClient
    /\ reader = NewReader
    /\ currentEvent = EmptyEvent
    /\ input = <<>>
    /\ rest = <<>>
    /\ delivered = <<>>
    /\ splitInLine = FALSE
    /\ heartbeats = 0

NextResume ==
    \/ FConnect
    \/ FFetchOk
    \/ \E value \in ResumeChunks : FRead(value)
    \/ \E j \in Jitters : FReadError(j)
    \/ FReconnectTimer
    \/ RConnect
    \/ ROpen("es")
    \/ \E id \in EventIds : RMessage("es", "payload", id)
    \/ \E j \in Jitters : RHeartbeatCheck(j)
    \/ RReconnectTimer
    \/ Tick

SpecResume == InitResume /\ [][NextResume]_vars

\* C17: LastEventId resumption: when a reconnect timeout opens the transport
\* after a message with an id was received, the request carries the id
\* received last
ResumeHintSent ==
    (ev = "reconnectTimer" /\ Has(out, {"connecting"}) /\ idReceived # None)
        => resumeHint = idReceived

(***************************************************************************)
(* processSSEStream of src/src/hooks/useCourseAdvisorChat.ts, the frame    *)
(* parser of the chat hook.  The JSON text of a chunk is one character:    *)
(* "T" a chunk with chunk_type 'token', "D" a chunk with chunk_type 'done';*)
(* any other text is not JSON.  The AbortSignal is not aborted.            *)
(***************************************************************************)
\* buf.indexOf("\n\n"), 0-based, -1 when absent
IndexOfBlankLine(buf) ==
    LET I == {i \in 1..(Len(buf) - 1) : buf[i] = "LF" /\ buf[i + 1] = "LF"}
    IN  IF I = {} THEN -1 ELSE (CHOOSE i \in I : \A j \in I : i <= j) - 1

\* the loop over frame.split("\n") for lines[i..]: f = [event, data]
RECURSIVE ParseFrameLines(_, _, _)
ParseFrameLines(lines, i, f) ==
    IF i > Len(lines) THEN f
    ELSE LET line == lines[i] IN
         ParseFrameLines(lines, i + 1,
            IF StartsWith(line, FieldEvent \o <<":">>)
            THEN [f EXCEPT !.event = Trim(SubSeq(line, 7, Len(line)))]
            ELSE IF StartsWith(line, FieldData \o <<":">>)
            THEN [f EXCEPT !.data = @ \o Trim(SubSeq(line, 6, Len(line)))]
            ELSE f)

ParseFrame(frame) ==
    ParseFrameLines(SplitLines(frame, <<>>), 1, [event |-> MessageEvent, data |-> <<>>])

PingEvent == <<"p", "i", "n", "g">>
DoneMarker == <<"[", "D", "O", "N", "E", "]">>

\* JSON.parse(data): [ok |-> TRUE, chunk_type] for the chunk parsed,
\* [ok |-> FALSE] when it throws a SyntaxError
JSONParse(data) ==
    IF data = <<"T">> THEN [ok |-> TRUE, chunk_type |-> "token"]
    ELSE IF data = <<"D">> THEN [ok |-> TRUE, chunk_type |-> "done"]
    ELSE [ok |-> FALSE, chunk_type |-> "none"]

\* `break` after a chunk with chunk_type 'done': the loop over the frames of
\* buf ends
BreakAfterDone(r) == [r EXCEPT !.more = FALSE]

\* one frame taken off buf, with idx = buf.indexOf("\n\n"):
\* [buf, out, returned, more], out the callbacks invoked, returned whether
\* the function returned, more whether the loop goes on
TakeFrame(buf, idx) ==
    LET f == ParseFrame(SubSeq(buf, 1, idx))
        r == [buf |-> SubSeq(buf, idx + 3, Len(buf)), out |-> <<>>,
              returned |-> FALSE, more |-> TRUE]
    IN  IF f.event = PingEvent THEN [r EXCEPT !.out = <<"onHeartbeat">>]
        ELSE IF f.data = DoneMarker THEN [r EXCEPT !.returned = TRUE, !.more = FALSE]
        ELSE IF f.data = <<>> \/ f.data = <<"{", "}">> THEN r
        ELSE IF ~JSONParse(f.data).ok THEN r
        ELSE IF JSONParse(f.data).chunk_type = "done"
             THEN BreakAfterDone([r EXCEPT !.out = <<"onChunk:done">>])
        ELSE [r EXCEPT !.out = <<"onChunk:token">>]

\* while ((idx = buf.indexOf("\n\n")) >= 0) { ... }
RECURSIVE FrameLoop(_, _)
FrameLoop(buf, calls) ==
    LET idx == IndexOfBlankLine(buf) IN
    IF idx = -1 THEN [buf |-> buf, out |-> calls, returned |-> FALSE]
    ELSE LET r == TakeFrame(buf, idx) IN
         IF r.more THEN FrameLoop(r.buf, calls \o r.out)
         ELSE [buf |-> r.buf, out |-> calls \o r.out, returned |-> r.returned]

(***************************************************************************)
(* Specification SpecChat: processSSEStream on one response body, which    *)
(* the network delivers in chunks of any size.                             *)
(***************************************************************************)
ChatSegments ==
    { FieldData \o <<":", "T", "LF", "LF">>, FieldData \o <<":", "D", "LF", "LF">>,
      FieldEvent \o <<":">> \o PingEvent \o <<"LF", "LF">>,
      FieldData \o <<":">> \o DoneMarker \o <<"LF", "LF">>,
      FieldData \o <<":", "T", "LF">> }

RECURSIVE ChatStreams(_)
ChatStreams(n) ==
    IF n = 0 THEN {<<>>}
    ELSE LET S == ChatStreams(n - 1) IN S \cup {s \o g : s \in S, g \in ChatSegments}

\* the longest segment, in bytes
MaxChatSegmentLen == Len(FieldData) + Len(DoneMarker) + 3

InitChat ==
    /\ client = "processSSEStream"
    /\ options = Options("FetchSSEClient", 0, 0, 0)
    /\ phase = "reading"
    /\ NewClient
    /\ input \in ChatStreams(MaxChatSegs)
    /\ rest = input
    /\ reader = NewReader
    /\ currentEvent = EmptyEvent
    /\ delivered = <<>>
    /\ splitInLine = FALSE
    /\ heartbeats = 0

\* const { value, done } = await reader.read() with done = false, value the
\* next n bytes of the body: one iteration of the for (;;) loop
ChatRead(n) ==
    /\ phase = "reading"
    /\ n \in 1..Len(rest)
    /\ LET dec == Decode(reader.pending, SubSeq(rest, 1, n))
           r == FrameLoop(reader.buffer \o dec.text, <<>>)
       IN  /\ reader' = IF r.returned THEN NewReader
                        ELSE [buffer |-> r.buf, pending |-> dec.pending]
           /\ delivered' = delivered \o r.out
           /\ phase' = IF r.returned THEN "done" ELSE "reading"
           /\ splitInLine' = (splitInLine \/ (n < Len(rest) /\ ~r.returned
                                               /\ (r.buf # <<>> \/ dec.pending # <<>>)))
    /\ rest' = SubSeq(rest, n + 1, Len(rest))
    /\ UNCHANGED <<input, heartbeats, currentEvent, clientVars, historyVars>>

\* reader.read() resolves with done = true: the function returns
ChatDone ==
    /\ phase = "reading"
    /\ rest = <<>>
    /\ phase' = "done"
    /\ reader' = NewReader
    /\ UNCHANGED <<input, rest, currentEvent, delivered, splitInLine, heartbeats,
                   historyVars, client, options, abortController, isConnected,
                   reconnectTimer, reconnectAttempts, heartbeatTimer, hbDue, silence,
                   timeouts, delay, es, orphans, isDestroyed, lastEventId>>

NextChat ==
    \/ \E n \in 1..(MaxChatSegs * MaxChatSegmentLen) : ChatRead(n)
    \/ ChatDone

SpecChat == InitChat /\ [][NextChat]_vars

\* the callbacks of the whole stream fed as one chunk
WholeChatCalls(bytes) == FrameLoop(Utf8Decode(<<>>, bytes).text, <<>>).out

\* C18: chunk-size invariance of processSSEStream: however the stream was
\* split into chunks, once the function has returned the onChunk and
\* onHeartbeat calls made are those of the whole stream fed as one chunk
ChatChunkSizeInvariance ==
    phase = "done" => delivered = WholeChatCalls(input)

(***************************************************************************)
(* Further properties of the life of a client (specification Spec).        *)
(***************************************************************************)
\* the callbacks seq hold an onError call before the first 'reconnecting'
RECURSIVE ErrorBeforeReconnecting(_)
ErrorBeforeReconnecting(seq) ==
    IF seq = <<>> \/ Head(seq) = "reconnecting" THEN FALSE
    ELSE Head(seq) \in ErrorLabels \/ ErrorBeforeReconnecting(Tail(seq))

\* C21: retryable-failure side effects: a step that takes the status from
\* 'connected' to 'reconnecting' stops the heartbeat monitor and calls
\* onError before it reports 'reconnecting' and the backoff wait begins
RetrySideEffects ==
    [][(status = "connected" /\ status' = "reconnecting")
        => (~heartbeatTimer' /\ ErrorBeforeReconnecting(out'))]_vars

\* one line of each kind: a data field, a comment, a blank line, a field the
\* parser does not know, a field name without a colon
LineKinds ==
    { FieldData \o <<":", "x">>, <<":">>, <<>>, <<"x", ":", "x">>, FieldData }

\* C23: liveness touch on any line in FetchSSEClient: a line of any kind sets
\* lastHeartbeat, whatever the accumulator holds; a chunk of complete lines
\* read while the monitor runs leaves no time elapsed since the last
\* activity; and a heartbeat timeout happens only when more than
\* heartbeatTimeoutMs have elapsed since the last line (or since the
\* connection was established)
LivenessTouch ==
    [][/\ \A line \in LineKinds :
            processSSELine([currentEvent |-> currentEvent, out |-> <<>>,
                            touched |-> FALSE], line).touched
       /\ (IsFetch /\ ev' = "chunk" /\ heartbeatTimer) => silence' = 0
       /\ (IsFetch /\ ev' = "heartbeatTimeout") => silence > options.heartbeatTimeoutMs]_vars

\* a comment line arrived on a monitored stream after time had passed, and
\* no time has elapsed since
LivenessTouchWitness ==
    /\ IsFetch /\ ev = "chunk" /\ out = <<"onHeartbeat">>
    /\ heartbeatTimer /\ hbDue < CheckIntervalMs /\ silence = 0

\* C27: single pending reconnect timer in FetchSSEClient: no timeout of
\* scheduleReconnect is pending other than the one whose id reconnectTimer
\* holds, so that cleanup() cancels every pending reconnect
SingleReconnectTimer ==
    IsFetch => timeouts = 0

\* C28: messages only while connected in FetchSSEClient: onMessage is called
\* only when the status reported last is 'connected'
MessagesOnlyWhileConnected ==
    [][(IsFetch /\ Has(out', {"onMessage"})) => status = "connected"]_vars

HookReconnectOpens ==
    [][(ev' = "reconnect" /\ es # "undefined" /\ ~isDestroyed)
        => (Has(out', {"connecting"}) /\ es' = "CONNECTING")]_vars

(***************************************************************************)
(* Specification SpecLimit: the life of a client of either class that was  *)
(* constructed with maxReconnectAttempts: 0.                               *)
(***************************************************************************)
InitLimit ==
    /\ client \in {"FetchSSEClient", "ResilientSSE"}
    /\ \E m \in {0}, h \in HeartbeatOptions, b \in MaxBackoffOptions :
         options = Options(client, m, h, b)
    /\ phase = "idle"
    /\ NewClient
    /\ reader = NewReader
    /\ currentEvent = EmptyEvent
    /\ input = <<>>
    /\ rest = <<>>
    /\ delivered = <<>>
    /\ splitInLine = FALSE
    /\ heartbeats = 0

SpecLimit == InitLimit /\ [][Next]_vars

\* C26: the configured retry limit is honoured for the value 0: a client
\* constructed with maxReconnectAttempts = 0 (every client of SpecLimit)
\* reports 'disconnected' in the step that reports an error, never reports
\* 'reconnecting' and never has a reconnect pending
ZeroRetryLimit ==
    [][/\ Has(out', ErrorLabels) => status' = "disconnected"
       /\ ~Has(out', {"reconnecting"})
       /\ ~PendingReconnect']_vars

(***************************************************************************)
(* Specification SpecConsumer: clients whose onMessage callback may throw. *)
(***************************************************************************)
\* for (const line of lines) this.processSSELine(line), for lines[i..n], with
\* an onMessage that throws: the loop is left at the first message, inside
\* dispatchEvent, before currentEvent is reset
RECURSIVE ProcessLinesThrowing(_, _, _, _)
ProcessLinesThrowing(st, lines, i, n) ==
    IF i > n THEN [st |-> st, thrown |-> FALSE]
    ELSE LET next == processSSELine(st, lines[i]) IN
         IF Len(next.out) > Len(st.out) /\ next.out[Len(next.out)].cb = "onMessage"
         THEN [st |-> [next EXCEPT !.currentEvent = st.currentEvent], thrown |-> TRUE]
         ELSE ProcessLinesThrowing(next, lines, i + 1, n)

\* reader.read() resolves with a chunk holding the end of a frame, and
\* onMessage throws: the error leaves processStream through its finally and
\* reaches the catch of connect()
FReadThrows(value, jitter) ==
    /\ IsFetch
    /\ phase = "reading"
    /\ LET dec == Decode(reader.pending, value)
           lines == SplitLines(reader.buffer \o dec.text, <<>>)
           r == ProcessLinesThrowing([currentEvent |-> currentEvent, out |-> <<>>,
                                      touched |-> FALSE], lines, 1, Len(lines) - 1)
       IN  /\ r.thrown
           /\ currentEvent' = r.st.currentEvent
           /\ Becomes(FhandleConnectionError(
                        [Self EXCEPT !.out = Labels(r.st.out),
                                     !.idReceived = LastId(r.st.out, @),
                                     !.phase = "idle"],
                        "onError:CallbackError", jitter))
    /\ reader' = NewReader
    /\ ev' = "messageFailed"
    /\ UNCHANGED <<closedFrom, closedInFlight, errRun>>

\* handleMessage(event) with an onMessage that throws: the catch calls onError
RhandleMessageThrowing(s, data, id) ==
    LET s1 == RhandleMessage(s, data, id) IN
    IF Has(s1.out, {"onMessage"}) THEN Call(s1, "onError:CallbackError") ELSE s1

\* an open EventSource delivers an unnamed event, and onMessage throws
RMessageThrows(src, data, id) ==
    /\ IsResilient
    /\ SourceIs(src, "OPEN")
    /\ Has(RhandleMessageThrowing(Self, data, id).out, {"onMessage"})
    /\ Becomes(RhandleMessageThrowing(Self, data, id))
    /\ ev' = "messageFailed"
    /\ UNCHANGED <<parserVars, closedFrom, closedInFlight, errRun>>

InitConsumer ==
    /\ client \in {"FetchSSEClient", "ResilientSSE"}
    /\ \E m \in {1, 5}, h \in {1000}, b \in MaxBackoffOptions :
         options = Options(client, m, h, b)
    /\ phase = "idle"
    /\ NewClient
    /\ reader = NewReader
    /\ currentEvent = EmptyEvent
    /\ input = <<>>
    /\ rest = <<>>
    /\ delivered = <<>>
    /\ splitInLine = FALSE
    /\ heartbeats = 0

NextConsumer ==
    \/ FConnect
    \/ FFetchOk
    \/ \E value \in LifecycleChunks : FRead(value)
    \/ \E value \in LifecycleChunks, j \in Jitters : FReadThrows(value, j)
    \/ FReadDone
    \/ FReconnectTimer
    \/ RConnect
    \/ ROpen("es")
    \/ \E data \in MessageData : RMessage("es", data, <<>>)
    \/ \E data \in MessageData : RMessageThrows("es", data, <<>>)
    \/ \E j \in Jitters : FHeartbeatCheck(j)
    \/ \E j \in Jitters : RHeartbeatCheck(j)
    \/ RReconnectTimer
    \/ Tick

SpecConsumer == InitConsumer /\ [][NextConsumer]_vars

\* C22: a single bad message does not abort the stream: the step in which
\* onMessage throws leaves the status reported last as it was, reports
\* neither 'reconnecting' nor 'disconnected', leaves no reconnect pending,
\* and leaves the transport in place (FetchSSEClient goes on reading the
\* body, ResilientSSE keeps its EventSource)
BadMessageSurvives ==
    [][ev' = "messageFailed"
        => /\ status' = status
           /\ ~Has(out', {"reconnecting", "disconnected"})
           /\ ~PendingReconnect'
           /\ IsFetch => phase' = "reading"
           /\ IsResilient => es' = es]_vars

(***************************************************************************)
(* Specification SpecField: processStream of a connected FetchSSEClient on *)
(* a response body made of data lines with and without white space around  *)
(* the value, lines without a colon and blank lines.                       *)
(***************************************************************************)
\* "data:  x " (two spaces before the value, one after), "data:x", "data"
PaddedLine == FieldData \o <<":", " ", " ", "x", " ">>
BareLine == FieldData \o <<":", "x">>
NameOnlyLine == FieldData

FieldLines == { PaddedLine, BareLine, NameOnlyLine, <<>> }

RECURSIVE FieldStreams(_)
FieldStreams(n) ==
    IF n = 0 THEN {<<>>}
    ELSE LET S == FieldStreams(n - 1)
         IN  S \cup {s \o l \o <<"LF">> : s \in S, l \in FieldLines}

InitField ==
    /\ client = "FetchSSEClient"
    /\ options = Options(client, 0, 0, 0)
    /\ phase = "reading"
    /\ NewClient
    /\ input \in FieldStreams(MaxLines)
    /\ rest = input
    /\ reader = NewReader
    /\ currentEvent = EmptyEvent
    /\ delivered = <<>>
    /\ splitInLine = FALSE
    /\ heartbeats = 0

SpecField == InitField /\ [][NextFrame]_vars

\* the text s with one leading space removed, if it has one
StripOneSpace(s) == IF s # <<>> /\ Head(s) = " " THEN Tail(s) ELSE s

\* for each frame of lines[i..] that has a data line, the values of its data
\* lines joined with "\n", the value of a line being the text after the
\* first colon less one leading space
RECURSIVE JoinedValues(_, _, _)
JoinedValues(lines, i, values) ==
    IF i > Len(lines) THEN <<>>
    ELSE LET line == lines[i] IN
         IF StartsWith(line, FieldData \o <<":">>)
         THEN JoinedValues(lines, i + 1,
                  Append(values, StripOneSpace(SubSeq(line, Len(FieldData) + 2, Len(line)))))
         ELSE IF line = <<>>
         THEN (IF values = <<>> THEN <<>> ELSE <<Join(values)>>)
              \o JoinedValues(lines, i + 1, <<>>)
         ELSE JoinedValues(lines, i + 1, values)

PaddedFrame == PaddedLine \o <<"LF", "LF">>

\* C24: field-value white space in FetchSSEClient: once the stream has
\* ended, the data of the messages dispatched are made of the values of the
\* data lines, a value being the text after the first colon with at most
\* one leading space removed; the body "data:  x \n\n" gives the data " x "
FieldValueWhitespace ==
    phase = "done" =>
        /\ DataOf(delivered) = JoinedValues(CompleteLines(input), 1, <<>>)
        /\ input = PaddedFrame => DataOf(delivered) = << <<" ", "x", " ">> >>

NameOnlyFrame == NameOnlyLine \o <<"LF", "LF">>

\* C25: line without a colon in FetchSSEClient: once the body "data\n\n" has
\* ended, one message was dispatched, with empty data
LineWithoutColon ==
    (phase = "done" /\ input = NameOnlyFrame) =>
        (Len(delivered) = 1 /\ delivered[1].data = Some(<<>>))

====
